---------------------------- MODULE Spec2Model ----------------------------
(***************************************************************************)
(* A model of MoroccanIDExtractor (src/project/utils/text_parser.py).      *)
(*                                                                         *)
(* Text is a sequence of Unicode code points (Python str); None, which is  *)
(* no str, is a sequence that holds no code point.                         *)
(* Regular expressions are sequences of items interpreted                  *)
(* by a backtracking matcher with the semantics of Python's re module      *)
(* (greedy quantifiers, leftmost search, ordered alternation).             *)
(*                                                                         *)
(* Character tables (whitespace, combining class, decomposition, \d, \w)   *)
(* are exact on the Latin-1, combining-diacritics and Arabic blocks, which *)
(* are the blocks every modelled input is drawn from.                      *)
(***************************************************************************)
EXTENDS Integers, Sequences, FiniteSets, TLC

VARIABLES
    pc,         \* position of the call in progress
    raw,        \* the argument of the call (text / date_str)
    text,       \* local `text` of extract
    extracted,  \* local `extracted` of extract: the result mapping
    field,      \* index of the outer loop over self.patterns
    lang,       \* index of the inner loop over a field's language patterns
    searched,   \* the <<field key, language>> patterns re.search was run with
    norm1,      \* normalize_text(raw)
    norm2,      \* normalize_text(normalize_text(raw))
    date_out,   \* parse_date(raw)
    padsYear    \* whether the C library's strftime zero-pads %Y

vars == <<pc, raw, text, extracted, field, lang, searched, norm1, norm2,
          date_out, padsYear>>

None == <<-1>>

(***************************************************************************)
(* Bounds of the model.                                                    *)
(***************************************************************************)
MaxSegs   == 2   \* lines of recognised text per extract call
MaxLen    == 4   \* length of a normalize_text argument over CoreAlphabet
MaxKeyLen == 2   \* length of a normalize_text argument over TableAlphabet
MaxParts  == 3   \* separator-delimited parts of a parse_date argument

(***************************************************************************)
(* Sequence helpers.                                                       *)
(***************************************************************************)
\* the concatenation of the sequences ss[a+1..b]
RECURSIVE FlattenRange(_, _, _)
FlattenRange(ss, a, b) ==
    IF b <= a THEN <<>>
    ELSE IF b = a + 1 THEN ss[b]
    ELSE LET mid == (a + b) \div 2
         IN  FlattenRange(ss, a, mid) \o FlattenRange(ss, mid, b)

Flatten(ss) == FlattenRange(ss, 0, Len(ss))

Min(S) == CHOOSE x \in S : \A y \in S : x <= y

Slice(s, a, b) == [i \in 1..(b - a) |-> s[a + i]]   \* s[a:b], 0-based offsets

RECURSIVE JoinWith(_, _)
JoinWith(ss, sep) ==
    IF ss = <<>> THEN <<>>
    ELSE IF Len(ss) = 1 THEN ss[1]
    ELSE ss[1] \o sep \o JoinWith(Tail(ss), sep)

(***************************************************************************)
(* Character classes.                                                      *)
(***************************************************************************)
\* str.isspace() and the \s of a str pattern
Whitespace ==
    (9..13) \cup (28..32) \cup {133, 160, 5760} \cup (8192..8202)
    \cup {8232, 8233, 8239, 8287, 12288}

\* unicodedata.combining(c) # 0
Combining(c) ==
    \/ c \in 768..846 \/ c \in 848..879 \/ c \in 1155..1159
    \/ c \in 1425..1469 \/ c \in {1471, 1473, 1474, 1476, 1477, 1479}
    \/ c \in 1552..1562 \/ c \in 1611..1631 \/ c = 1648
    \/ c \in 1750..1756 \/ c \in 1759..1764 \/ c \in {1767, 1768}
    \/ c \in 1770..1773

\* the \d of a str pattern: ASCII, Arabic-indic and extended Arabic-indic digits
Digits == (48..57) \cup (1632..1641) \cup (1776..1785)

\* int() of one decimal digit
DigitValue(c) ==
    IF c \in 48..57 THEN c - 48
    ELSE IF c \in 1632..1641 THEN c - 1632
    ELSE c - 1776

\* the \w of a str pattern (str.isalnum() or "_")
IsWord(c) ==
    \/ c \in Digits
    \/ c \in 65..90 \/ c \in 97..122 \/ c = 95
    \/ c \in {170, 181, 186} \/ c \in {178, 179, 185} \/ c \in 188..190
    \/ c \in 192..214 \/ c \in 216..246 \/ c \in 248..705
    \/ c \in 1568..1610 \/ c \in {1646, 1647} \/ c \in 1649..1747
    \/ c \in {1749, 1765, 1766} \/ c \in 1774..1788 \/ c = 1791

\* the characters a pattern character c matches under re.IGNORECASE
IC(c) ==
    IF c \in 65..90 THEN
        {c, c + 32} \cup (IF c = 83 THEN {383} ELSE {})
                    \cup (IF c = 75 THEN {8490} ELSE {})
                    \cup (IF c = 73 THEN {304, 305} ELSE {})
    ELSE IF c \in 97..122 THEN
        {c, c - 32} \cup (IF c = 115 THEN {383} ELSE {})
                    \cup (IF c = 107 THEN {8490} ELSE {})
                    \cup (IF c = 105 THEN {304, 305} ELSE {})
    ELSE IF c \in (192..222) \ {215} THEN {c, c + 32}
    ELSE IF c \in (224..254) \ {247} THEN {c, c - 32}
    ELSE {c}

ICSet(S) == UNION {IC(c) : c \in S}

(***************************************************************************)
(* normalize_text                                                          *)
(***************************************************************************)
\* the compatibility decomposition of one character
Decompose(c) ==
    CASE c = 160 -> <<32>>  [] c = 168 -> <<32, 776>>  [] c = 170 -> <<97>>  [] c = 175 -> <<32, 772>>
       [] c = 178 -> <<50>>  [] c = 179 -> <<51>>  [] c = 180 -> <<32, 769>>  [] c = 181 -> <<956>>
       [] c = 184 -> <<32, 807>>  [] c = 185 -> <<49>>  [] c = 186 -> <<111>>  [] c = 188 -> <<49, 8260, 52>>
       [] c = 189 -> <<49, 8260, 50>>  [] c = 190 -> <<51, 8260, 52>>  [] c = 192 -> <<65, 768>>  [] c = 193 -> <<65, 769>>
       [] c = 194 -> <<65, 770>>  [] c = 195 -> <<65, 771>>  [] c = 196 -> <<65, 776>>  [] c = 197 -> <<65, 778>>
       [] c = 199 -> <<67, 807>>  [] c = 200 -> <<69, 768>>  [] c = 201 -> <<69, 769>>  [] c = 202 -> <<69, 770>>
       [] c = 203 -> <<69, 776>>  [] c = 204 -> <<73, 768>>  [] c = 205 -> <<73, 769>>  [] c = 206 -> <<73, 770>>
       [] c = 207 -> <<73, 776>>  [] c = 209 -> <<78, 771>>  [] c = 210 -> <<79, 768>>  [] c = 211 -> <<79, 769>>
       [] c = 212 -> <<79, 770>>  [] c = 213 -> <<79, 771>>  [] c = 214 -> <<79, 776>>  [] c = 217 -> <<85, 768>>
       [] c = 218 -> <<85, 769>>  [] c = 219 -> <<85, 770>>  [] c = 220 -> <<85, 776>>  [] c = 221 -> <<89, 769>>
       [] c = 224 -> <<97, 768>>  [] c = 225 -> <<97, 769>>  [] c = 226 -> <<97, 770>>  [] c = 227 -> <<97, 771>>
       [] c = 228 -> <<97, 776>>  [] c = 229 -> <<97, 778>>  [] c = 231 -> <<99, 807>>  [] c = 232 -> <<101, 768>>
       [] c = 233 -> <<101, 769>>  [] c = 234 -> <<101, 770>>  [] c = 235 -> <<101, 776>>  [] c = 236 -> <<105, 768>>
       [] c = 237 -> <<105, 769>>  [] c = 238 -> <<105, 770>>  [] c = 239 -> <<105, 776>>  [] c = 241 -> <<110, 771>>
       [] c = 242 -> <<111, 768>>  [] c = 243 -> <<111, 769>>  [] c = 244 -> <<111, 770>>  [] c = 245 -> <<111, 771>>
       [] c = 246 -> <<111, 776>>  [] c = 249 -> <<117, 768>>  [] c = 250 -> <<117, 769>>  [] c = 251 -> <<117, 770>>
       [] c = 252 -> <<117, 776>>  [] c = 253 -> <<121, 769>>  [] c = 255 -> <<121, 776>>  [] c = 1570 -> <<1575, 1619>>
       [] c = 1571 -> <<1575, 1620>>  [] c = 1572 -> <<1608, 1620>>  [] c = 1573 -> <<1575, 1621>>  [] c = 1574 -> <<1610, 1620>>
       [] c = 1653 -> <<1575, 1652>>  [] c = 1654 -> <<1608, 1652>>  [] c = 1655 -> <<1735, 1652>>  [] c = 1656 -> <<1610, 1652>>
       [] c = 1728 -> <<1749, 1620>>  [] c = 1730 -> <<1729, 1620>>  [] c = 1747 -> <<1746, 1620>>
       [] OTHER -> <<c>>

\* unicodedata.normalize('NFKD', text); the canonical reordering of combining
\* marks is left out: the next statement drops every combining mark
NFKD(s) == Flatten([i \in 1..Len(s) |-> Decompose(s[i])])

\* ''.join(c for c in text if not unicodedata.combining(c))
StripCombining(s) == SelectSeq(s, LAMBDA c : ~Combining(c))

\* re.sub(r'\s+', ' ', text): a space for the first character of every run of
\* whitespace, nothing for the rest of the run
CollapseSpaces(s) ==
    LET kept == SelectSeq([i \in 1..Len(s) |-> i],
                          LAMBDA i : ~(s[i] \in Whitespace /\ i > 1
                                       /\ s[i - 1] \in Whitespace))
    IN  [j \in 1..Len(kept) |->
            IF s[kept[j]] \in Whitespace THEN 32 ELSE s[kept[j]]]

\* str.strip()
RECURSIVE LStripAt(_, _)
LStripAt(s, i) ==
    IF i < Len(s) /\ s[i + 1] \in Whitespace THEN LStripAt(s, i + 1) ELSE i

RECURSIVE RStripAt(_, _)
RStripAt(s, j) ==
    IF j > 0 /\ s[j] \in Whitespace THEN RStripAt(s, j - 1) ELSE j

Strip(s) ==
    LET a == LStripAt(s, 0)
        b == RStripAt(s, Len(s))
    IN  IF b <= a THEN <<>> ELSE Slice(s, a, b)

\* the arabic_chars dict, in insertion order: <<key, replacement>>
arabic_chars_broken ==
    << <<1571, 1575>>, <<1573, 1575>>, <<1570, 1575>>,
       <<1577, 1607>>,
       <<1609, 1610>>,
       <<1632, 48>>, <<1633, 49>>, <<1634, 50>>, <<1635, 50>>, <<1636, 52>>,
       <<1637, 53>>, <<1638, 54>>, <<1639, 55>>, <<1640, 56>>, <<1641, 57>> >>

arabic_chars ==
    << <<1571, 1575>>, <<1573, 1575>>, <<1570, 1575>>,
       <<1577, 1607>>,
       <<1609, 1610>>,
       <<1632, 48>>, <<1633, 49>>, <<1634, 50>>, <<1635, 51>>, <<1636, 52>>,
       <<1637, 53>>, <<1638, 54>>, <<1639, 55>>, <<1640, 56>>, <<1641, 57>> >>

\* text.replace(ar_char, replacement) for single characters
Replace(s, old, new) == [i \in 1..Len(s) |-> IF s[i] = old THEN new ELSE s[i]]

\* for ar_char, replacement in arabic_chars.items(): text = text.replace(...)
RECURSIVE ReplaceAll(_, _, _)
ReplaceAll(s, table, k) ==
    IF k > Len(table) THEN s
    ELSE ReplaceAll(Replace(s, table[k][1], table[k][2]), table, k + 1)

\* a variant that collapses whitespace before it drops the combining marks
normalize_text_collapse_first(s) ==
    ReplaceAll(StripCombining(Strip(CollapseSpaces(NFKD(s)))), arabic_chars, 1)

normalize_text(s) ==
    ReplaceAll(Strip(CollapseSpaces(StripCombining(NFKD(s)))), arabic_chars, 1)

(***************************************************************************)
(* Regular expressions (Python re, str patterns, flags=re.IGNORECASE).     *)
(* An expression is a sequence of alternatives, tried in order; an         *)
(* alternative is a sequence of items:                                     *)
(*   [k |-> "set", cs, lo, hi]  a greedy repetition {lo,hi} of a character *)
(*                              class (hi = -1: unbounded)                 *)
(*   [k |-> "lit", w]           a literal string                           *)
(*   [k |-> "b"]                \b                                         *)
(*   [k |-> "open"], [k |-> "close"]   the parentheses of group 1          *)
(* A match is <<end, group start, group end>> (0-based offsets, -1 for a   *)
(* group that took no part), a failure is <<>>.                            *)
(***************************************************************************)
Rep(S, lo, hi) == <<[k |-> "set", cs |-> S, lo |-> lo, hi |-> hi]>>
Star(S)  == Rep(S, 0, -1)
Plus(S)  == Rep(S, 1, -1)
WordB    == <<[k |-> "b"]>>
Group(p) == <<[k |-> "open"]>> \o p \o <<[k |-> "close"]>>
Lit(w)   == <<[k |-> "lit", w |-> w]>>

\* the literal w at offset i of t, each character matched case-insensitively
LitAt(w, t, i) ==
    /\ i + Len(w) <= Len(t)
    /\ \A j \in 1..Len(w) : t[i + j] \in IC(w[j])

AtBoundary(t, i) ==
    (i > 0 /\ IsWord(t[i])) # (i < Len(t) /\ IsWord(t[i + 1]))

\* the number of characters of cs that follow offset i of t, at most hi
RunLen(t, i, cs, hi) ==
    LET room  == Len(t) - i
        limit == IF hi = -1 \/ room < hi THEN room ELSE hi
    IN  Min({n \in 0..limit : n = limit \/ t[i + n + 1] \notin cs})

RECURSIVE MatchItems(_, _, _, _, _, _)
RECURSIVE TryCount(_, _, _, _, _, _, _)

\* the items p[k..] at offset i of t
MatchItems(p, k, t, i, gs, ge) ==
    IF k > Len(p) THEN <<i, gs, ge>>
    ELSE CASE p[k].k = "b" ->
                IF AtBoundary(t, i) THEN MatchItems(p, k + 1, t, i, gs, ge) ELSE <<>>
           [] p[k].k = "open"  -> MatchItems(p, k + 1, t, i, i, ge)
           [] p[k].k = "close" -> MatchItems(p, k + 1, t, i, gs, i)
           [] p[k].k = "lit"   ->
                IF LitAt(p[k].w, t, i)
                THEN MatchItems(p, k + 1, t, i + Len(p[k].w), gs, ge) ELSE <<>>
           [] p[k].k = "set"   ->
                TryCount(p, k, t, i, gs, ge, RunLen(t, i, p[k].cs, p[k].hi))

\* greedy: the longest repetition first, one character given back at a time
TryCount(p, k, t, i, gs, ge, n) ==
    IF n < p[k].lo THEN <<>>
    ELSE LET r == MatchItems(p, k + 1, t, i + n, gs, ge)
         IN  IF r # <<>> THEN r ELSE TryCount(p, k, t, i, gs, ge, n - 1)

RECURSIVE MatchAlt(_, _, _, _)
MatchAlt(re, a, t, i) ==
    IF a > Len(re) THEN <<>>
    ELSE LET r == MatchItems(re[a], 1, t, i, -1, -1)
         IN  IF r # <<>> THEN r ELSE MatchAlt(re, a + 1, t, i)

\* pattern.match at offset i
MatchAt(re, t, i) == MatchAlt(re, 1, t, i)

\* pattern.search(t, i): the match at the leftmost offset from i on that has
\* one, <<start, end, group start, group end>>, or <<>>
SearchFrom(re, t, i) ==
    LET starts == {j \in i..Len(t) : MatchAt(re, t, j) # <<>>}
    IN  IF starts = {} THEN <<>>
        ELSE <<Min(starts)>> \o MatchAt(re, t, Min(starts))

\* re.search(pattern, t)
Search(re, t) == SearchFrom(re, t, 0)

group0(t, m) == Slice(t, m[1], m[2])   \* match.group(0)
group1(t, m) == Slice(t, m[3], m[4])   \* match.group(1)

\* re.sub(pattern, '', t) for a pattern that matches no empty string: the
\* leftmost match from i on is dropped and the scan goes on behind it
RECURSIVE SubFrom(_, _, _)
SubFrom(re, t, i) ==
    LET m == SearchFrom(re, t, i)
    IN  IF m = <<>> THEN Slice(t, i, Len(t))
        ELSE Slice(t, i, m[1]) \o SubFrom(re, t, m[2])

Sub(re, t) == SubFrom(re, t, 0)

(***************************************************************************)
(* self.patterns                                                           *)
(***************************************************************************)
UpperAZ    == 65..90                                  \* [A-Z]
NameClass  == ICSet(UpperAZ) \cup Whitespace \cup {45}  \* [A-Z\s\-]
ArabClass  == (1536..1791) \cup Whitespace            \* [\u0600-\u06FF\s]
Colons     == Star({58})                              \* [:]*
Spaces     == Star(Whitespace)                        \* \s*
\* (\d{2}[./-]\d{2}[./-]\d{4})
DateToken  ==
    Group(Rep(Digits, 2, 2) \o Rep({46, 47, 45}, 1, 1) \o Rep(Digits, 2, 2)
          \o Rep({46, 47, 45}, 1, 1) \o Rep(Digits, 4, 4))

\* the keys of self.patterns, in insertion order
k_cin_number  == <<99, 105, 110, 95, 110, 117, 109, 98, 101, 114>>       \* "cin_number"
k_name        == <<110, 97, 109, 101>>                                   \* "name"
k_birth_date  == <<98, 105, 114, 116, 104, 95, 100, 97, 116, 101>>       \* "birth_date"
k_birth_place == <<98, 105, 114, 116, 104, 95, 112, 108, 97, 99, 101>>   \* "birth_place"
k_expiry_date == <<101, 120, 112, 105, 114, 121, 95, 100, 97, 116, 101>> \* "expiry_date"

PatternKeys == <<k_cin_number, k_name, k_birth_date, k_birth_place, k_expiry_date>>

\* r'\b[A-Z]{1,2}\d{6}\b'
cin_pattern ==
    << WordB \o Rep(ICSet(UpperAZ), 1, 2) \o Rep(Digits, 6, 6) \o WordB >>

\* r'NOM\s*ET\s*PRENOM\s*[:]*\s*([A-Z\s\-]+)'
name_fr ==
    << Lit(<<78, 79, 77>>) \o Spaces \o Lit(<<69, 84>>) \o Spaces
       \o Lit(<<80, 82, 69, 78, 79, 77>>) \o Spaces \o Colons \o Spaces
       \o Group(Plus(NameClass)) >>

\* r'<al-ism>\s*<al-kamil>\s*[:]*\s*([\u0600-\u06FF\s]+)'
name_ar ==
    << Lit(<<1575, 1604, 1575, 1587, 1605>>) \o Spaces
       \o Lit(<<1575, 1604, 1603, 1575, 1605, 1604>>) \o Spaces \o Colons
       \o Spaces \o Group(Plus(ArabClass)) >>

\* r'N[e\u00e9]\s*le\s*(\d{2}[./-]\d{2}[./-]\d{4})'
birth_date_fr ==
    << Lit(<<78>>) \o Rep(ICSet({101, 233}), 1, 1) \o Spaces
       \o Lit(<<108, 101>>) \o Spaces \o DateToken >>

\* r'<tarikh>\s*<al-izdiyad>\s*[:]*\s*(\d{2}[./-]\d{2}[./-]\d{4})'
birth_date_ar ==
    << Lit(<<1578, 1575, 1585, 1610, 1582>>) \o Spaces
       \o Lit(<<1575, 1604, 1575, 1586, 1583, 1610, 1575, 1583>>) \o Spaces
       \o Colons \o Spaces \o DateToken >>

\* r'\b(?:\u00e0|a)\s*([A-Z\s\-]+)'
birth_place_fr ==
    << WordB \o Rep(ICSet({224, 97}), 1, 1) \o Spaces \o Group(Plus(NameClass)) >>

\* r'<makan>\s*<al-izdiyad>\s*[:]*\s*([\u0600-\u06FF\s]+)'
birth_place_ar ==
    << Lit(<<1605, 1603, 1575, 1606>>) \o Spaces
       \o Lit(<<1575, 1604, 1575, 1586, 1583, 1610, 1575, 1583>>) \o Spaces
       \o Colons \o Spaces \o Group(Plus(ArabClass)) >>

\* r'Valable\s*jusqu\'au\s*(\d{2}[./-]\d{2}[./-]\d{4})'
expiry_date_fr ==
    << Lit(<<86, 97, 108, 97, 98, 108, 101>>) \o Spaces
       \o Lit(<<106, 117, 115, 113, 117, 39, 97, 117>>) \o Spaces \o DateToken >>

\* r'<saliha>\s*<ila>\s*<ghaya>\s*(\d{2}[./-]\d{2}[./-]\d{4})': teh marbuta
\* (1577), alef with hamza below (1573) and alef maksura (1609) as written
expiry_date_ar ==
    << Lit(<<1589, 1575, 1604, 1581, 1577>>) \o Spaces
       \o Lit(<<1573, 1604, 1609>>) \o Spaces
       \o Lit(<<1594, 1575, 1610, 1577>>) \o Spaces \o DateToken >>

\* isinstance(patterns, dict)
IsDict(key) == key # k_cin_number

\* the language order of a field's dict: 'fr' first, then 'ar'
LangOrderReversed == <<"ar", "fr">>

LangOrder == <<"fr", "ar">>

\* self.patterns[key][lang]
LangPattern(key, l) ==
    CASE key = k_name        -> IF l = "fr" THEN name_fr ELSE name_ar
      [] key = k_birth_date  -> IF l = "fr" THEN birth_date_fr ELSE birth_date_ar
      [] key = k_birth_place -> IF l = "fr" THEN birth_place_fr ELSE birth_place_ar
      [] key = k_expiry_date -> IF l = "fr" THEN expiry_date_fr ELSE expiry_date_ar

(***************************************************************************)
(* clean_irrelevant_lines                                                  *)
(***************************************************************************)
\* r'(ROYAUME DU MAROC|CARTE NATIONALE D\'IDENTITE)'
remove_fr ==
    << Lit(<<82, 79, 89, 65, 85, 77, 69, 32, 68, 85, 32, 77, 65, 82, 79, 67>>),
       Lit(<<67, 65, 82, 84, 69, 32, 78, 65, 84, 73, 79, 78, 65, 76, 69, 32,
             68, 39, 73, 68, 69, 78, 84, 73, 84, 69>>) >>

\* r'(<al-mamlaka al-maghribiya>|<al-bitaqa al-wataniya lit-taarif>)'
remove_ar ==
    << Lit(<<1575, 1604, 1605, 1605, 1604, 1603, 1577, 32,
             1575, 1604, 1605, 1594, 1585, 1576, 1610, 1577>>),
       Lit(<<1575, 1604, 1576, 1591, 1575, 1602, 1577, 32,
             1575, 1604, 1608, 1591, 1606, 1610, 1577, 32,
             1604, 1604, 1578, 1593, 1585, 1610, 1601>>) >>

\* r'<alha>\s*<ila>\s*<gh, fatha, aya>\s*\d{2}\.\d{4}'
remove_expiry_like ==
    << Lit(<<1575, 1604, 1581, 1577>>) \o Spaces \o Lit(<<1573, 1604, 1609>>)
       \o Spaces \o Lit(<<1594, 1614, 1575, 1610, 1577>>) \o Spaces
       \o Rep(Digits, 2, 2) \o Rep({46}, 1, 1) \o Rep(Digits, 4, 4) >>

patterns_to_remove == <<remove_fr, remove_ar, remove_expiry_like>>

RECURSIVE RemoveAll(_, _, _)
RemoveAll(t, ps, k) ==
    IF k > Len(ps) THEN t ELSE RemoveAll(Sub(ps[k], t), ps, k + 1)

clean_irrelevant_lines(t) == Strip(RemoveAll(t, patterns_to_remove, 1))

(***************************************************************************)
(* parse_date                                                              *)
(***************************************************************************)
\* the outcome of a strptime that raises ValueError
ValueError == <<-2>>

\* str.split(sep) for a one-character separator
RECURSIVE SplitFrom(_, _, _, _)
SplitFrom(s, sep, i, start) ==
    IF i > Len(s) THEN <<Slice(s, start, Len(s))>>
    ELSE IF s[i] = sep
         THEN <<Slice(s, start, i - 1)>> \o SplitFrom(s, sep, i + 1, i)
         ELSE SplitFrom(s, sep, i + 1, start)

Split(s, sep) == SplitFrom(s, sep, 1, 0)

\* int() of a string of digits with optional leading blanks
RECURSIVE IntFrom(_, _, _)
IntFrom(p, i, acc) ==
    IF i > Len(p) THEN acc
    ELSE IF p[i] \in Whitespace THEN IntFrom(p, i + 1, acc)
    ELSE IntFrom(p, i + 1, 10 * acc + DigitValue(p[i]))

IntOf(p) == IntFrom(p, 1, 0)

\* the regular expressions _strptime gives the directives; each directive is
\* followed by "/" or by the end of the string, so it matches a whole part
\* %d: 3[0-1]|[1-2]\d|0[1-9]|[1-9]| [1-9]
MatchesD(p) ==
    \/ Len(p) = 2 /\ \/ p[1] = 51 /\ p[2] \in {48, 49}
                     \/ p[1] \in {49, 50} /\ p[2] \in Digits
                     \/ p[1] = 48 /\ p[2] \in 49..57
                     \/ p[1] = 32 /\ p[2] \in 49..57
    \/ Len(p) = 1 /\ p[1] \in 49..57
\* %m: 1[0-2]|0[1-9]|[1-9]
MatchesM(p) ==
    \/ Len(p) = 2 /\ \/ p[1] = 49 /\ p[2] \in 48..50
                     \/ p[1] = 48 /\ p[2] \in 49..57
    \/ Len(p) = 1 /\ p[1] \in 49..57
\* %Y: \d\d\d\d
MatchesY(p) == Len(p) = 4 /\ \A i \in 1..4 : p[i] \in Digits

Matches(directive, p) ==
    CASE directive = "d" -> MatchesD(p)
      [] directive = "m" -> MatchesM(p)
      [] directive = "Y" -> MatchesY(p)

IsLeap(y) == y % 4 = 0 /\ (y % 100 # 0 \/ y % 400 = 0)

DaysInMonth(y, m) ==
    IF m = 2 THEN (IF IsLeap(y) THEN 29 ELSE 28)
    ELSE IF m \in {4, 6, 9, 11} THEN 30 ELSE 31

\* the position of a directive in a format
IndexOf(fmt, directive) == CHOOSE i \in 1..Len(fmt) : fmt[i] = directive

\* datetime.strptime(s, fmt) for a format of three directives joined by "/":
\* <<year, month, day>> or ValueError
strptime(s, fmt) ==
    LET parts == Split(s, 47)
    IN  IF Len(parts) # 3 \/ \E i \in 1..3 : ~Matches(fmt[i], parts[i])
        THEN ValueError
        ELSE LET y == IntOf(parts[IndexOf(fmt, "Y")])
                 m == IntOf(parts[IndexOf(fmt, "m")])
                 d == IntOf(parts[IndexOf(fmt, "d")])
             IN  IF y >= 1 /\ d <= DaysInMonth(y, m) THEN <<y, m, d>>
                 ELSE ValueError

\* the decimal digits of n, zero-padded to at least w characters
RECURSIVE Dec(_, _)
Dec(n, w) ==
    IF n < 10 /\ w <= 1 THEN <<48 + n>>
    ELSE Dec(n \div 10, w - 1) \o <<48 + (n % 10)>>

\* date.strftime('%Y-%m-%d'); %Y is the C library's: glibc does not pad a
\* year below 1000, other libraries do
strftime(ymd, pads) ==
    Dec(ymd[1], IF pads THEN 4 ELSE 1) \o <<45>> \o Dec(ymd[2], 2) \o <<45>>
    \o Dec(ymd[3], 2)

\* ['%d/%m/%Y', '%Y/%m/%d', '%m/%d/%Y']
DateFormats == << <<"d", "m", "Y">>, <<"Y", "m", "d">>, <<"m", "d", "Y">> >>

RECURSIVE TryFormats(_, _, _)
TryFormats(s, k, pads) ==
    IF k > Len(DateFormats) THEN None
    ELSE LET r == strptime(s, DateFormats[k])
         IN  IF r # ValueError THEN strftime(r, pads)
             ELSE TryFormats(s, k + 1, pads)

parse_date(date_str) ==
    IF date_str = <<>> THEN None
    ELSE TryFormats(Replace(Replace(date_str, 46, 47), 45, 47), 1, padsYear)

(***************************************************************************)
(* extract                                                                 *)
(***************************************************************************)
\* the keys `extracted` is initialised with
KeyCIN    == <<67, 73, 78, 32, 78, 117, 109, 98, 101, 114>>                    \* "CIN Number"
KeyName   == <<70, 117, 108, 108, 32, 78, 97, 109, 101>>                       \* "Full Name"
KeyBirth  == <<68, 97, 116, 101, 32, 111, 102, 32, 66, 105, 114, 116, 104>>    \* "Date of Birth"
KeyPlace  == <<80, 108, 97, 99, 101, 32, 111, 102, 32, 66, 105, 114, 116, 104>> \* "Place of Birth"
KeyExpiry == <<69, 120, 112, 105, 114, 121, 32, 68, 97, 116, 101>>             \* "Expiry Date"

DeclaredKeys == {KeyCIN, KeyName, KeyBirth, KeyPlace, KeyExpiry}

\* an initialisation that leaves 'Place of Birth' out
InitialResultShort == [k \in {KeyCIN, KeyName, KeyBirth, KeyExpiry} |-> None]

\* extracted = {'CIN Number': None, 'Full Name': None, ...}
InitialResult == [k \in DeclaredKeys |-> None]

IsCased(c) == c \in 65..90 \/ c \in 97..122

\* str.title() on ASCII text
Title(s) ==
    [i \in 1..Len(s) |->
        IF ~IsCased(s[i]) THEN s[i]
        ELSE IF i > 1 /\ IsCased(s[i - 1])
             THEN (IF s[i] \in 65..90 THEN s[i] + 32 ELSE s[i])
             ELSE (IF s[i] \in 97..122 THEN s[i] - 32 ELSE s[i])]

\* key.replace('_', ' ').title()
ResultKey(key) == Title(Replace(key, 95, 32))

\* d[k] = v on a dict
SetItem(d, k, v) == [x \in DOMAIN d \cup {k} |-> IF x = k THEN v ELSE d[x]]

IsDateKey(key) == key = k_birth_date \/ key = k_expiry_date

\* the lines of recognised text an extract call is given
Phrases ==
    <<
       \* "NOM ET PRENOM: AHMED ALAMI Ne le 12.05.1990 Valable jusqu'au 12.05.2030",
       \* the e of "Ne" with an acute accent
       <<78, 79, 77, 32, 69, 84, 32, 80, 82, 69, 78, 79, 77, 58, 32, 65, 72,
         77, 69, 68, 32, 65, 76, 65, 77, 73, 32, 78, 233, 32, 108, 101, 32,
         49, 50, 46, 48, 53, 46, 49, 57, 57, 48, 32, 86, 97, 108, 97, 98,
         108, 101, 32, 106, 117, 115, 113, 117, 39, 97, 117, 32, 49, 50, 46,
         48, 53, 46, 50, 48, 51, 48>>,
       \* "NOM ET PRENOM: AHMED ALAMI"
       <<78, 79, 77, 32, 69, 84, 32, 80, 82, 69, 78, 79, 77, 58, 32, 65, 72,
         77, 69, 68, 32, 65, 76, 65, 77, 73>>,
       \* "Ne le 12.05.1990", the e with an acute accent
       <<78, 233, 32, 108, 101, 32, 49, 50, 46, 48, 53, 46, 49, 57, 57, 48>>,
       \* "Valable jusqu'au 12.05.2030"
       <<86, 97, 108, 97, 98, 108, 101, 32, 106, 117, 115, 113, 117, 39, 97,
         117, 32, 49, 50, 46, 48, 53, 46, 50, 48, 51, 48>>,
       \* "ROYAUME DU MAROC CARTE NATIONALE D'IDENTITE AB123456"
       <<82, 79, 89, 65, 85, 77, 69, 32, 68, 85, 32, 77, 65, 82, 79, 67, 32,
         67, 65, 82, 84, 69, 32, 78, 65, 84, 73, 79, 78, 65, 76, 69, 32, 68,
         39, 73, 68, 69, 78, 84, 73, 84, 69, 32, 65, 66, 49, 50, 51, 52, 53,
         54>>,
       \* "AB123456"
       <<65, 66, 49, 50, 51, 52, 53, 54>>,
       \* "ab123456"
       <<97, 98, 49, 50, 51, 52, 53, 54>>,
       \* "AB12345"
       <<65, 66, 49, 50, 51, 52, 53>>,
       \* "ABC123456"
       <<65, 66, 67, 49, 50, 51, 52, 53, 54>>,
       \* the Arabic "valid until" phrase (U+0635 U+0627 U+0644 U+062D U+0629, U+0625 U+0644
       \* U+0649, U+063A U+0627 U+064A U+0629) and " 12.05.2030"
       <<1589, 1575, 1604, 1581, 1577, 32, 1573, 1604, 1609, 32, 1594, 1575,
         1610, 1577, 32, 49, 50, 46, 48, 53, 46, 50, 48, 51, 48>>,
       \* the Arabic country title "Kingdom of Morocco"
       <<1575, 1604, 1605, 1605, 1604, 1603, 1577, 32, 1575, 1604, 1605,
         1594, 1585, 1576, 1610, 1577>>,
       \* the Arabic "date of birth" label and " 01.01.2000"
       <<1578, 1575, 1585, 1610, 1582, 32, 1575, 1604, 1575, 1586, 1583,
         1610, 1575, 1583, 32, 48, 49, 46, 48, 49, 46, 50, 48, 48, 48>>,
       \* "Ne le 31.04.2020", the e with an acute accent
       <<78, 233, 32, 108, 101, 32, 51, 49, 46, 48, 52, 46, 50, 48, 50, 48>>,
       \* "random unrelated text"
       <<114, 97, 110, 100, 111, 109, 32, 117, 110, 114, 101, 108, 97, 116,
         101, 100, 32, 116, 101, 120, 116>>,
       \* the Arabic "full name" label, ": " and an Arabic name
       <<1575, 1604, 1575, 1587, 1605, 32, 1575, 1604, 1603, 1575, 1605,
         1604, 58, 32, 1575, 1581, 1605, 1583>>
    >>

\* the recognised lines f names, joined by line feeds
InputOf(f) == JoinWith([i \in 1..Len(f) |-> Phrases[f[i]]], <<10>>)

Init ==
    /\ pc = "call"
    /\ \E k \in 0..MaxSegs : \E f \in [1..k -> 1..Len(Phrases)] :
          raw = InputOf(f)
    /\ text = <<>>
    /\ extracted = <<>>
    /\ field = 1
    /\ lang = 1
    /\ searched = {}
    /\ norm1 = <<>>
    /\ norm2 = <<>>
    /\ date_out = None
    /\ padsYear \in BOOLEAN

\* text = self.normalize_text(text)
Normalize ==
    /\ pc = "call"
    /\ text' = normalize_text(raw)
    /\ pc' = "normalized"
    /\ UNCHANGED <<raw, extracted, field, lang, searched, norm1, norm2,
                   date_out, padsYear>>

\* text = self.clean_irrelevant_lines(text)
Clean ==
    /\ pc = "normalized"
    /\ text' = clean_irrelevant_lines(text)
    /\ pc' = "cleaned"
    /\ UNCHANGED <<raw, extracted, field, lang, searched, norm1, norm2,
                   date_out, padsYear>>

\* extracted = {'CIN Number': None, ...}
InitExtracted ==
    /\ pc = "cleaned"
    /\ extracted' = InitialResult
    /\ pc' = "loop"
    /\ UNCHANGED <<raw, text, field, lang, searched, norm1, norm2, date_out,
                   padsYear>>

\* an iteration of the outer loop whose patterns is a plain pattern
SearchPlain ==
    /\ pc = "loop"
    /\ field <= Len(PatternKeys)
    /\ ~IsDict(PatternKeys[field])
    /\ LET key == PatternKeys[field]
           m   == Search(cin_pattern, text)
       IN  /\ extracted' = IF m # <<>>
                           THEN SetItem(extracted, ResultKey(key),
                                        Strip(group0(text, m)))
                           ELSE extracted
           /\ searched' = searched \cup {<<key, "plain">>}
    /\ field' = field + 1
    /\ UNCHANGED <<pc, raw, text, lang, norm1, norm2, date_out, padsYear>>

\* an iteration of the inner loop: the pattern of one language matches a date
SearchLangDate ==
    /\ pc = "loop"
    /\ field <= Len(PatternKeys)
    /\ IsDict(PatternKeys[field])
    /\ lang <= Len(LangOrder)
    /\ IsDateKey(PatternKeys[field])
    /\ LET key == PatternKeys[field]
           m   == Search(LangPattern(key, LangOrder[lang]), text)
       IN  /\ m # <<>>
           /\ extracted' = SetItem(extracted, ResultKey(key),
                                   parse_date(group1(text, m)))
           /\ searched' = searched \cup {<<key, LangOrder[lang]>>}
    /\ field' = field + 1      \* break
    /\ lang' = 1
    /\ UNCHANGED <<pc, raw, text, norm1, norm2, date_out, padsYear>>

\* an iteration of the inner loop: the pattern of one language matches a text
SearchLangText ==
    /\ pc = "loop"
    /\ field <= Len(PatternKeys)
    /\ IsDict(PatternKeys[field])
    /\ lang <= Len(LangOrder)
    /\ ~IsDateKey(PatternKeys[field])
    /\ LET key == PatternKeys[field]
           m   == Search(LangPattern(key, LangOrder[lang]), text)
       IN  /\ m # <<>>
           /\ extracted' = SetItem(extracted, ResultKey(key),
                                   Strip(group1(text, m)))
           /\ searched' = searched \cup {<<key, LangOrder[lang]>>}
    /\ field' = field + 1      \* break
    /\ lang' = 1
    /\ UNCHANGED <<pc, raw, text, norm1, norm2, date_out, padsYear>>

\* an iteration of the inner loop: the pattern of one language does not match
SearchLangMiss ==
    /\ pc = "loop"
    /\ field <= Len(PatternKeys)
    /\ IsDict(PatternKeys[field])
    /\ lang <= Len(LangOrder)
    /\ LET key == PatternKeys[field]
           m   == Search(LangPattern(key, LangOrder[lang]), text)
       IN  /\ m = <<>>
           /\ searched' = searched \cup {<<key, LangOrder[lang]>>}
    /\ IF lang < Len(LangOrder)
       THEN field' = field /\ lang' = lang + 1
       ELSE field' = field + 1 /\ lang' = 1
    /\ UNCHANGED <<pc, raw, text, extracted, norm1, norm2, date_out, padsYear>>

\* return extracted
Return ==
    /\ pc = "loop"
    /\ field > Len(PatternKeys)
    /\ pc' = "done"
    /\ UNCHANGED <<raw, text, extracted, field, lang, searched, norm1, norm2,
                   date_out, padsYear>>

Next ==
    \/ Normalize
    \/ Clean
    \/ InitExtracted
    \/ SearchPlain
    \/ SearchLangDate
    \/ SearchLangText
    \/ SearchLangMiss
    \/ Return

Spec == Init /\ [][Next]_vars

(***************************************************************************)
(* normalize_text called on its own result.                                *)
(***************************************************************************)
\* a, e with acute, combining acute, space, line feed, no-break space,
\* alef with hamza above, teh marbuta, Arabic-indic digit three
CoreAlphabet == {97, 233, 769, 32, 10, 160, 1571, 1577, 1635}

\* every key of arabic_chars, a space and the fatha
TableAlphabet ==
    {arabic_chars[i][1] : i \in 1..Len(arabic_chars)} \cup {32, 1614}

InitNorm ==
    /\ pc = "n0"
    /\ \/ \E k \in 0..MaxLen : \E f \in [1..k -> CoreAlphabet] :
             raw = [i \in 1..k |-> f[i]]
       \/ \E k \in 0..MaxKeyLen : \E f \in [1..k -> TableAlphabet] :
             raw = [i \in 1..k |-> f[i]]
    /\ text = <<>>
    /\ extracted = <<>>
    /\ field = 1
    /\ lang = 1
    /\ searched = {}
    /\ norm1 = <<>>
    /\ norm2 = <<>>
    /\ date_out = None
    /\ padsYear = FALSE

NormOnce ==
    /\ pc = "n0"
    /\ norm1' = normalize_text(raw)
    /\ pc' = "n1"
    /\ UNCHANGED <<raw, text, extracted, field, lang, searched, norm2,
                   date_out, padsYear>>

NormTwice ==
    /\ pc = "n1"
    /\ norm2' = normalize_text(norm1)
    /\ pc' = "n2"
    /\ UNCHANGED <<raw, text, extracted, field, lang, searched, norm1,
                   date_out, padsYear>>

NextNorm == NormOnce \/ NormTwice

SpecNorm == InitNorm /\ [][NextNorm]_vars

(***************************************************************************)
(* parse_date called on a token.                                           *)
(***************************************************************************)
\* "03" "04" "13" "31" "29" "02" "2020" "2021" "0999" "0000" "1"
DateParts ==
    { <<48, 51>>, <<48, 52>>, <<49, 51>>, <<51, 49>>, <<50, 57>>, <<48, 50>>,
      <<50, 48, 50, 48>>, <<50, 48, 50, 49>>, <<48, 57, 57, 57>>,
      <<48, 48, 48, 48>>, <<49>> }

Separators == { <<47>>, <<46>>, <<45>> }   \* "/" "." "-"

RECURSIVE Interleave(_, _)
Interleave(parts, seps) ==
    IF Len(parts) = 1 THEN parts[1]
    ELSE parts[1] \o seps[1] \o Interleave(Tail(parts), Tail(seps))

InitDate ==
    /\ pc = "d0"
    /\ \/ raw = <<>>
       \/ \E k \in 1..MaxParts :
             \E f \in [1..k -> DateParts], g \in [1..(k - 1) -> Separators] :
                raw = Interleave(f, g)
    /\ text = <<>>
    /\ extracted = <<>>
    /\ field = 1
    /\ lang = 1
    /\ searched = {}
    /\ norm1 = <<>>
    /\ norm2 = <<>>
    /\ date_out = None
    /\ padsYear \in BOOLEAN

ParseDate ==
    /\ pc = "d0"
    /\ date_out' = parse_date(raw)
    /\ pc' = "d1"
    /\ UNCHANGED <<raw, text, extracted, field, lang, searched, norm1, norm2,
                   padsYear>>

NextDate == ParseDate

SpecDate == InitDate /\ [][NextDate]_vars

(***************************************************************************)
(* Properties.                                                             *)
(***************************************************************************)
IsText(v) == v # None /\ \A i \in DOMAIN v : v[i] \in Nat

BilingualKeys == {k_name, k_birth_date, k_birth_place, k_expiry_date}

\* no pattern of any field matches t
NoPatternMatches(t) ==
    /\ Search(cin_pattern, t) = <<>>
    /\ \A key \in BilingualKeys : \A l \in {"fr", "ar"} :
          Search(LangPattern(key, l), t) = <<>>

\* "random unrelated text"
RandomText ==
    <<114, 97, 110, 100, 111, 109, 32, 117, 110, 114, 101, 108, 97, 116, 101,
      100, 32, 116, 101, 120, 116>>

\* a call that has not returned has a next step to take
CanStep ==
    \/ pc \in {"call", "normalized", "cleaned"}
    \/ /\ pc = "loop"
       /\ field \in 1..(Len(PatternKeys) + 1)
       /\ field <= Len(PatternKeys) /\ IsDict(PatternKeys[field]) =>
             lang \in 1..Len(LangOrder)

\* C1: extract returns for every input (a call that has not returned can take
\* its next step), and the mapping it returns holds every declared key with a
\* string or None; when no pattern matches the text, every value is None.
C1_CompleteShape ==
    /\ pc # "done" => CanStep
    /\ pc = "done" =>
          /\ DeclaredKeys \subseteq DOMAIN extracted
          /\ \A k \in DeclaredKeys : extracted[k] = None \/ IsText(extracted[k])
          /\ NoPatternMatches(text) =>
                \A k \in DOMAIN extracted : extracted[k] = None

C1_Witness ==
    /\ pc = "done"
    /\ raw = RandomText
    /\ NoPatternMatches(text)
    /\ DOMAIN extracted = DeclaredKeys
    /\ \A k \in DeclaredKeys : extracted[k] = None

AhmedAlami == <<65, 72, 77, 69, 68, 32, 65, 76, 65, 77, 73>>   \* "AHMED ALAMI"
Iso19900512 == <<49, 57, 57, 48, 45, 48, 53, 45, 49, 50>>      \* "1990-05-12"
Iso20300512 == <<50, 48, 51, 48, 45, 48, 53, 45, 49, 50>>      \* "2030-05-12"

\* C2: the French record "NOM ET PRENOM: AHMED ALAMI Ne le 12.05.1990 Valable
\* jusqu'au 12.05.2030" yields full name "AHMED ALAMI", birth date
\* "1990-05-12" and expiry date "2030-05-12".
C2_FrenchRecord ==
    (pc = "done" /\ raw = Phrases[1]) =>
        /\ extracted[KeyName] = AhmedAlami
        /\ extracted[KeyBirth] = Iso19900512
        /\ extracted[KeyExpiry] = Iso20300512

\* the keys of the substitution table
TableKeys == {1570, 1571, 1573, 1577, 1609} \cup (1632..1641)

\* a text no step of the normalisation would change
Canonical(s) ==
    \A i \in 1..Len(s) :
        /\ Decompose(s[i]) = <<s[i]>>
        /\ ~Combining(s[i])
        /\ s[i] \notin TableKeys
        /\ s[i] \in Whitespace =>
              s[i] = 32 /\ 1 < i /\ i < Len(s) /\ s[i - 1] \notin Whitespace

\* C3: normalize_text is idempotent, and its result holds nothing that the
\* decomposition, the removal of combining marks, the whitespace collapse and
\* trim or the substitution table would change.
C3_Idempotent ==
    /\ pc \in {"n1", "n2"} => Canonical(norm1)
    /\ pc = "n2" => norm2 = norm1

\* e-acute, no-break space, line feed, Arabic-indic three  ->  "e 3"
C3_Witness ==
    /\ pc = "n2"
    /\ raw = <<233, 160, 10, 1635>>
    /\ norm1 = <<101, 32, 51>>
    /\ norm2 = norm1

\* the YYYY-MM-DD form of <<year, month, day>>
Iso(ymd) == Dec(ymd[1], 4) \o <<45>> \o Dec(ymd[2], 2) \o <<45>> \o Dec(ymd[3], 2)

\* the date token with "." and "-" read as "/"
Slashed(s) == [i \in 1..Len(s) |-> IF s[i] \in {46, 45} THEN 47 ELSE s[i]]

\* the layouts, in order, under which the token is a valid calendar date
ValidLayouts(s) ==
    {k \in 1..Len(DateFormats) : strptime(Slashed(s), DateFormats[k]) # ValueError}

\* C4: parse_date returns the YYYY-MM-DD form of the token under the first
\* of the layouts day/month/year, year/month/day, month/day/year that yields a
\* valid calendar date, and None when none does; "03/04/2020" gives
\* "2020-04-03" and "31/04/2020" gives None.
C4_FirstValidLayout ==
    pc = "d1" =>
        /\ IF ValidLayouts(raw) = {} THEN date_out = None
           ELSE date_out =
                  Iso(strptime(Slashed(raw), DateFormats[Min(ValidLayouts(raw))]))
        /\ raw = <<48, 51, 47, 48, 52, 47, 50, 48, 50, 48>> =>
              date_out = <<50, 48, 50, 48, 45, 48, 52, 45, 48, 51>>
        /\ raw = <<51, 49, 47, 48, 52, 47, 50, 48, 50, 48>> => date_out = None

\* 1 or 2 uppercase Latin letters followed by exactly 6 digits
IsCinShape(v) ==
    \/ Len(v) = 7 /\ v[1] \in UpperAZ /\ \A i \in 2..7 : v[i] \in 48..57
    \/ Len(v) = 8 /\ v[1] \in UpperAZ /\ v[2] \in UpperAZ
                  /\ \A i \in 3..8 : v[i] \in 48..57

\* t holds a word-bounded token of that shape
HasCinToken(t) ==
    \E a \in 0..Len(t) : \E n \in {7, 8} :
        /\ a + n <= Len(t)
        /\ IsCinShape(Slice(t, a, a + n))
        /\ AtBoundary(t, a)
        /\ AtBoundary(t, a + n)

\* the keys a CIN value can be read under
CinKeys == {KeyCIN, ResultKey(k_cin_number)}

CanonChar(c) ==
    IF c \in 1632..1641 THEN c - 1632 + 48
    ELSE IF c \in {1570, 1571, 1573} THEN 1575
    ELSE IF c = 1577 THEN 1607
    ELSE IF c = 1609 THEN 1610
    ELSE Decompose(c)[1]

\* C6: after normalize_text no key of the substitution table is left, and
\* every Arabic-indic digit, hamza-carrying alef, teh marbuta and alef maksura
\* of the input stands replaced, in place, by its canonical character: the
\* characters of the result between the spaces are those of the input between
\* whitespace and combining marks, each replaced.
C6_DigitsCanonical ==
    pc \in {"n1", "n2"} =>
        /\ \A i \in 1..Len(norm1) : norm1[i] \notin TableKeys
        /\ LET kept == SelectSeq(raw, LAMBDA c : c \notin Whitespace /\ ~Combining(c))
           IN  SelectSeq(norm1, LAMBDA c : c # 32)
                 = [i \in 1..Len(kept) |-> CanonChar(kept[i])]

\* Arabic-indic nine, alef with hamza below  ->  "9", alef
C6_Witness ==
    /\ pc = "n1"
    /\ raw = <<1641, 1573>>
    /\ norm1 = <<57, 1575>>

\* the boilerplate phrases as they read in normalised text
BoilerplatePhrases ==
    { normalize_text(remove_fr[1][1].w), normalize_text(remove_fr[2][1].w),
      normalize_text(remove_ar[1][1].w), normalize_text(remove_ar[2][1].w) }

\* t holds the phrase, in any case
Occurs(phrase, t) == Search(<<Lit(phrase)>>, t) # <<>>

\* C7: after clean_irrelevant_lines no boilerplate phrase, French or Arabic,
\* is left in the text the field patterns are matched against, no returned
\* value holds one, and "ROYAUME DU MAROC CARTE NATIONALE D'IDENTITE AB123456"
\* yields the ID number "AB123456".
C7_BoilerplateRemoved ==
    /\ pc \in {"cleaned", "loop", "done"} =>
          \A ph \in BoilerplatePhrases : ~Occurs(ph, text)
    /\ pc = "done" =>
          /\ \A k \in DOMAIN extracted : \A ph \in BoilerplatePhrases :
                extracted[k] # None => ~Occurs(ph, extracted[k])
          /\ raw = Phrases[5] => extracted[KeyCIN] = Phrases[6]

\* C8: a matched value is stored under the key that was initialised as None:
\* the returned mapping has the five declared keys and no other.
C8_DeclaredKeysOnly ==
    pc \in {"loop", "done"} => DOMAIN extracted = DeclaredKeys

\* C9: when the Arabic "valid until" phrase and a date token follow each other
\* in the raw text, and no French expiry label does, the expiry date returned
\* is the ISO form of that token.
C9_ArabicExpiry ==
    (/\ pc = "done"
     /\ Search(expiry_date_ar, raw) # <<>>
     /\ Search(expiry_date_fr, raw) = <<>>) =>
        /\ extracted[KeyExpiry] # None
        /\ extracted[KeyExpiry] =
             Iso(strptime(Slashed(group1(raw, Search(expiry_date_ar, raw))),
                          DateFormats[1]))

\* the value a match m of a pattern of the field key stands for
ValueOf(key, t, m) ==
    IF IsDateKey(key) THEN parse_date(group1(t, m)) ELSE Strip(group1(t, m))

\* C10: the variants of a bilingual field are tried French first, then Arabic,
\* and the search stops at the first that matches: when the French variant
\* matches, the value stored for the field is the French one (None for a date
\* that does not parse) and the Arabic variant is not searched; the Arabic
\* variant is searched only when the French one does not match.
C10_FrenchFirst ==
    pc = "done" =>
        \A key \in BilingualKeys :
            LET fr == Search(LangPattern(key, "fr"), text)
            IN  /\ <<key, "fr">> \in searched
                /\ fr # <<>> =>
                      /\ <<key, "ar">> \notin searched
                      /\ ResultKey(key) \in DOMAIN extracted
                      /\ extracted[ResultKey(key)] = ValueOf(key, text, fr)
                /\ fr = <<>> => <<key, "ar">> \in searched

\* both birth-date variants match and the French token is no calendar date
C10_Witness ==
    /\ pc = "done"
    /\ Search(birth_date_fr, text) # <<>>
    /\ Search(birth_date_ar, text) # <<>>
    /\ ValidLayouts(group1(text, Search(birth_date_fr, text))) = {}
    /\ ValidLayouts(group1(text, Search(birth_date_ar, text))) # {}
    /\ extracted[ResultKey(k_birth_date)] = None
    /\ <<k_birth_date, "ar">> \notin searched

=============================================================================
